---- MODULE Spec2Model ----
(***************************************************************************)
(* Model of the limit order book of src/main.py (class OrderBook).         *)
(*                                                                         *)
(* A Python dict is a function whose DOMAIN is its key set, a deque or a   *)
(* list is a sequence (index 1 is Python index 0), an Order object is a    *)
(* record, None is the empty tuple and a price p returned by best_bid /    *)
(* best_ask is <<p>>.  Prices are integers (ticks).                        *)
(***************************************************************************)
EXTENDS Integers, Sequences, FiniteSets, TLC

\* ------------------------------------------------------------------ bounds
MaxPrice == 2
MaxQty == 2
MaxOrders == 3

Prices == 1..MaxPrice
Qtys == 1..MaxQty
\* prices and quantities a caller may pass although they are not positive
BadNumbers == {-1, 0}
Sides == {"buy", "sell"}
\* a side string that is neither "buy" nor "sell"
BadSides == {"hold"}

VARIABLES
  bids,        \* self.bids: price -> deque of Order
  asks,        \* self.asks: price -> deque of Order
  bid_prices,  \* self.bid_prices: list of prices
  ask_prices,  \* self.ask_prices: list of prices
  order_map,   \* self.order_map: order_id -> (side, price)
  nextId,      \* the id the caller gives to the next order (i of stress_test)
  call,        \* the last call made on the book, its argument and its outcome
  fills,       \* the trades made by the matching loop during the last call
  err,         \* the exception the last call raised, "none" if it returned
  out,         \* the level lines the last call printed, per section
  conc         \* the add_order calls in progress, statement by statement

vars == <<bids, asks, bid_prices, ask_prices, order_map, nextId, call, fills, err, out, conc>>

Threads == {1, 2}

\* ----------------------------------------------------------- Python values
None == <<>>
Some(x) == <<x>>

EmptyDict == [k \in {} |-> 0]
DictSet(d, k, v) == [x \in (DOMAIN d) \cup {k} |-> IF x = k THEN v ELSE d[x]]
DictDel(d, k) == [x \in (DOMAIN d) \ {k} |-> d[x]]

Range(s) == {s[i] : i \in 1..Len(s)}

\* Order(order_id, side, price, quantity)
Order(order_id, side, price, quantity) ==
  [order_id |-> order_id, side |-> side, price |-> price, quantity |-> quantity]

\* the five fields of an OrderBook
Book(b, a, bp, ap, om) ==
  [bids |-> b, asks |-> a, bid_prices |-> bp, ask_prices |-> ap, order_map |-> om]

\* OrderBook.__init__
EmptyBook == Book(EmptyDict, EmptyDict, <<>>, <<>>, EmptyDict)

\* the book held in the variables
book == Book(bids, asks, bid_prices, ask_prices, order_map)

\* ------------------------------------------------------------ list helpers
\* bisect.bisect_right(a, x, lo, hi) with 0-based lo, hi
RECURSIVE bisect_right(_, _, _, _)
bisect_right(a, x, lo, hi) ==
  IF lo < hi
  THEN LET mid == (lo + hi) \div 2
       IN IF x < a[mid + 1] THEN bisect_right(a, x, lo, mid)
                            ELSE bisect_right(a, x, mid + 1, hi)
  ELSE lo

\* bisect.insort(a, x)
insort(a, x) ==
  LET i == bisect_right(a, x, 0, Len(a))
  IN SubSeq(a, 1, i) \o <<x>> \o SubSeq(a, i + 1, Len(a))

\* insertion of x into a descending list, before the first smaller element
RECURSIVE InsertDesc(_, _)
InsertDesc(s, x) ==
  IF s = <<>> THEN <<x>>
  ELSE IF x > Head(s) THEN <<x>> \o s
  ELSE <<Head(s)>> \o InsertDesc(Tail(s), x)

\* list.sort(reverse=True)
RECURSIVE sort_reverse(_)
sort_reverse(s) ==
  IF s = <<>> THEN <<>> ELSE InsertDesc(sort_reverse(Tail(s)), Head(s))

\* list.remove(x): the list without the first occurrence of x
RECURSIVE list_remove(_, _)
list_remove(s, x) ==
  IF s = <<>> THEN <<>>
  ELSE IF Head(s) = x THEN Tail(s)
  ELSE <<Head(s)>> \o list_remove(Tail(s), x)

filter_queue_popleft(queue, order_id) == Tail(queue)

\* deque(o for o in queue if o.order_id != order_id)
RECURSIVE filter_queue(_, _)
filter_queue(queue, order_id) ==
  IF queue = <<>> THEN <<>>
  ELSE IF Head(queue).order_id # order_id
       THEN <<Head(queue)>> \o filter_queue(Tail(queue), order_id)
       ELSE filter_queue(Tail(queue), order_id)

\* ------------------------------------------------------------------ queries
\* OrderBook.best_bid
best_bid(B) == IF B.bid_prices # <<>> THEN Some(B.bid_prices[1]) ELSE None

\* OrderBook.best_ask
best_ask(B) == IF B.ask_prices # <<>> THEN Some(B.ask_prices[1]) ELSE None

level_total_head(queue) == IF queue = <<>> THEN 0 ELSE Head(queue).quantity

\* sum(o.quantity for o in queue)
RECURSIVE level_total(_)
level_total(queue) ==
  IF queue = <<>> THEN 0 ELSE Head(queue).quantity + level_total(Tail(queue))

\* what a call that prints nothing leaves on the output
NoOutput == [asks |-> <<>>, bids |-> <<>>, err |-> "none"]

\* one "for p in prices" loop of print_book: a line (price, total) per price
\* of the list, in list order; a price that is no key of bk raises KeyError
RECURSIVE print_levels(_, _)
print_levels(prices, bk) ==
  IF prices = <<>> THEN [lines |-> <<>>, err |-> "none"]
  ELSE IF Head(prices) \notin DOMAIN bk THEN [lines |-> <<>>, err |-> "KeyError"]
  ELSE LET rest == print_levels(Tail(prices), bk)
       IN [lines |-> <<[price |-> Head(prices), total |-> level_total(bk[Head(prices)])]>>
                     \o rest.lines,
           err |-> rest.err]

\* OrderBook.print_book: the asks section, then the bids section
print_book(B) ==
  LET a == print_levels(B.ask_prices, B.asks)
      b == print_levels(B.bid_prices, B.bids)
  IN IF a.err # "none" THEN [asks |-> a.lines, bids |-> <<>>, err |-> a.err]
     ELSE [asks |-> a.lines, bids |-> b.lines, err |-> b.err]

\* ----------------------------------------------------------------- matching
\* The state of one add_order call: the book, the incoming Order object
\* (mutated in place), the trades made so far, the exception raised,
\* whether _add_to_book was reached and the value returned.
Matching(B, order) ==
  [bids |-> B.bids, asks |-> B.asks, bid_prices |-> B.bid_prices,
   ask_prices |-> B.ask_prices, order_map |-> B.order_map,
   order |-> order, fills |-> <<>>, err |-> "none", rested |-> FALSE,
   ret |-> None]

\* one pass of a matching loop that trades: the incoming order, the resting
\* order it trades with, the level that order was taken from, and trade_qty
Fill(taker, maker, level, quantity) ==
  [taker |-> taker, maker |-> maker, level |-> level, quantity |-> quantity]

Min(a, b) == IF a < b THEN a ELSE b

buy_break_on_equal(order, bestAsk) == order.price <= bestAsk

\* if order.price < best_ask: break
buy_break(order, bestAsk) == order.price < bestAsk

sell_break_on_equal(order, bestBid) == order.price >= bestBid

\* if order.price > best_bid: break
sell_break(order, bestBid) == order.price > bestBid

trade_qty_resting(order, resting) == resting.quantity

trade_qty_incoming(order, resting) == order.quantity

\* trade_qty = min(order.quantity, resting.quantity)
trade_qty(order, resting) == Min(order.quantity, resting.quantity)

forget_order_skip(om, order_id) == om

\* self.order_map.pop(resting.order_id, None)
forget_order(om, order_id) == DictDel(om, order_id)

\* The body of both matching loops once the level is chosen: trade with the
\* head of the level's queue, pop it when it is filled, delete the level and
\* the head of the price list when the queue is emptied.
\* Returns the level dict, the price list and the rest of the call state.
match_head(M, bk, prices, level) ==
  IF level \notin DOMAIN bk THEN [bk |-> bk, prices |-> prices, M |-> [M EXCEPT !.err = "KeyError"]]
  ELSE
    LET queue == bk[level] IN
    IF queue = <<>> THEN [bk |-> bk, prices |-> prices, M |-> [M EXCEPT !.err = "IndexError"]]
    ELSE
      LET resting == queue[1]
          qty == trade_qty(M.order, resting)
          restingQty == resting.quantity - qty
          \* the queue after resting.quantity -= trade_qty
          queue1 == [queue EXCEPT ![1].quantity = restingQty]
          \* the queue after queue.popleft(), when it is made
          queue2 == IF restingQty = 0 THEN Tail(queue1) ELSE queue1
          emptied == restingQty = 0 /\ queue2 = <<>>
      IN [bk |-> IF emptied THEN DictDel(bk, level) ELSE DictSet(bk, level, queue2),
          prices |-> IF emptied THEN Tail(prices) ELSE prices,
          M |-> [M EXCEPT
                   !.order.quantity = @ - qty,
                   !.fills = Append(@, Fill(M.order.order_id, resting.order_id, level, qty)),
                   !.order_map = IF restingQty = 0
                                 THEN forget_order(@, resting.order_id) ELSE @]]

\* OrderBook._match_buy
RECURSIVE _match_buy(_)
_match_buy(M) ==
  IF ~(M.ask_prices # <<>> /\ M.order.quantity > 0) THEN M
  ELSE
    LET bestAsk == M.ask_prices[1] IN
    IF buy_break(M.order, bestAsk) THEN M
    ELSE
      LET R == match_head(M, M.asks, M.ask_prices, bestAsk)
          M1 == [R.M EXCEPT !.asks = R.bk, !.ask_prices = R.prices]
      IN IF M1.err # "none" THEN M1 ELSE _match_buy(M1)

\* OrderBook._match_sell
RECURSIVE _match_sell(_)
_match_sell(M) ==
  IF ~(M.bid_prices # <<>> /\ M.order.quantity > 0) THEN M
  ELSE
    LET bestBid == M.bid_prices[1] IN
    IF sell_break(M.order, bestBid) THEN M
    ELSE
      LET R == match_head(M, M.bids, M.bid_prices, bestBid)
          M1 == [R.M EXCEPT !.bids = R.bk, !.bid_prices = R.prices]
      IN IF M1.err # "none" THEN M1 ELSE _match_sell(M1)

insert_price_no_reverse(prices, side, price) == insort(prices, price)

\* insort(prices, order.price), and prices.sort(reverse=True) on the buy side
insert_price(prices, side, price) ==
  IF side = "buy" THEN sort_reverse(insort(prices, price))
  ELSE insort(prices, price)

append_order_left(queue, order) == <<order>> \o queue

\* book[order.price].append(order)
append_order(queue, order) == Append(queue, order)

\* OrderBook._add_to_book
_add_to_book(M) ==
  LET order == M.order
      isBuy == order.side = "buy"
      bk == IF isBuy THEN M.bids ELSE M.asks
      prices == IF isBuy THEN M.bid_prices ELSE M.ask_prices
      isNew == order.price \notin DOMAIN bk
      bk1 == IF isNew THEN DictSet(bk, order.price, <<>>) ELSE bk
      prices1 == IF isNew THEN insert_price(prices, order.side, order.price)
                 ELSE prices
      bk2 == DictSet(bk1, order.price, append_order(bk1[order.price], order))
  IN [M EXCEPT
        !.bids = IF isBuy THEN bk2 ELSE @,
        !.asks = IF isBuy THEN @ ELSE bk2,
        !.bid_prices = IF isBuy THEN prices1 ELSE @,
        !.ask_prices = IF isBuy THEN @ ELSE prices1,
        !.order_map = DictSet(@, order.order_id, <<order.side, order.price>>),
        !.rested = TRUE]

add_order_always_rest(B, order) ==
  LET M0 == Matching(B, order)
      M1 == IF order.side = "buy" THEN _match_buy(M0)
            ELSE IF order.side = "sell" THEN _match_sell(M0)
            ELSE [M0 EXCEPT !.err = "ValueError"]
  IN IF M1.err # "none" THEN M1 ELSE _add_to_book(M1)

add_order_swapped(B, order) ==
  LET M0 == Matching(B, order)
      M1 == IF order.side = "buy" THEN _match_sell(M0)
            ELSE IF order.side = "sell" THEN _match_buy(M0)
            ELSE [M0 EXCEPT !.err = "ValueError"]
  IN IF M1.err # "none" THEN M1
     ELSE IF M1.order.quantity > 0 THEN _add_to_book(M1)
     ELSE M1

add_order_else_sell(B, order) ==
  LET M0 == Matching(B, order)
      M1 == IF order.side = "buy" THEN _match_buy(M0) ELSE _match_sell(M0)
  IN IF M1.err # "none" THEN M1
     ELSE IF M1.order.quantity > 0 THEN _add_to_book(M1)
     ELSE M1

\* OrderBook.add_order
add_order(B, order) ==
  LET M0 == Matching(B, order)
      M1 == IF order.side = "buy" THEN _match_buy(M0)
            ELSE IF order.side = "sell" THEN _match_sell(M0)
            ELSE [M0 EXCEPT !.err = "ValueError"]
  IN IF M1.err # "none" THEN M1
     ELSE IF M1.order.quantity > 0 THEN _add_to_book(M1)
     ELSE M1

\* ------------------------------------------------------------- cancellation
store_queue_keep(bk, prices, price, queue) ==
  [bk |-> DictSet(bk, price, queue), prices |-> prices, err |-> "none"]

store_queue_no_remove(bk, prices, price, queue) ==
  IF queue # <<>>
  THEN [bk |-> DictSet(bk, price, queue), prices |-> prices, err |-> "none"]
  ELSE [bk |-> DictDel(bk, price), prices |-> prices, err |-> "none"]

\* The end of cancel_order: keep the filtered queue, or delete the level and
\* remove its price from the price list when the queue is empty.
store_queue(bk, prices, price, queue) ==
  IF queue # <<>>
  THEN [bk |-> DictSet(bk, price, queue), prices |-> prices, err |-> "none"]
  ELSE IF price \notin Range(prices)
  THEN [bk |-> DictDel(bk, price), prices |-> prices, err |-> "ValueError"]
  ELSE [bk |-> DictDel(bk, price), prices |-> list_remove(prices, price), err |-> "none"]

\* cancel_order once order_id is known to be in order_map
cancel_found(B, order_id) ==
  LET side == B.order_map[order_id][1]
      price == B.order_map[order_id][2]
      isBuy == side = "buy"
      bk == IF isBuy THEN B.bids ELSE B.asks
      prices == IF isBuy THEN B.bid_prices ELSE B.ask_prices
      B1 == [B EXCEPT !.order_map = DictDel(@, order_id)]
  IN IF price \notin DOMAIN bk
     THEN [book |-> B1, err |-> "KeyError", found |-> TRUE]
     ELSE
       LET R == store_queue(bk, prices, price, filter_queue(bk[price], order_id))
       IN [book |-> [B1 EXCEPT
                       !.bids = IF isBuy THEN R.bk ELSE @,
                       !.asks = IF isBuy THEN @ ELSE R.bk,
                       !.bid_prices = IF isBuy THEN R.prices ELSE @,
                       !.ask_prices = IF isBuy THEN @ ELSE R.prices],
           err |-> R.err, found |-> TRUE]

cancel_order_unguarded(B, order_id) ==
  IF order_id \notin DOMAIN B.order_map
  THEN [book |-> B, err |-> "KeyError", found |-> FALSE]
  ELSE cancel_found(B, order_id)

\* OrderBook.cancel_order; found tells whether order_id was in order_map
cancel_order(B, order_id) ==
  IF order_id \notin DOMAIN B.order_map
  THEN [book |-> B, err |-> "none", found |-> FALSE]
  ELSE cancel_found(B, order_id)

\* ------------------------------------------- add_order, statement by statement
\* The local variables of one add_order call: the statement it is at, the
\* incoming Order object, best_ask / best_bid, the deque it holds in queue
\* ("live": the deque that is the level best of the opposite side,
\* "detached": a deque another call deleted from the dict, which is empty),
\* the id of the Order object it holds in resting, trade_qty and the
\* exception raised.
Locals(pc, order) ==
  [pc |-> pc, order |-> order, best |-> 0, queue |-> "none", resting |-> 0,
   trade_qty |-> 0, err |-> "none"]

\* no call in progress; gone holds the quantity of the Order objects popped
\* from their queue, overlapped tells whether a call began during another
NoCalls ==
  [th |-> [t \in Threads |-> Locals("idle", Order(0, "none", 0, 0))],
   gone |-> EmptyDict, overlapped |-> FALSE]

\* if resting.quantity == 0
resting_filled_negative(quantity) == quantity < 0

resting_filled(quantity) == quantity = 0

\* the statements at which a call is in progress
Active(pc) == pc \notin {"idle", "done", "raised"}

\* the shared book and the calls in progress
Machine(B, c) ==
  [bids |-> B.bids, asks |-> B.asks, bid_prices |-> B.bid_prices,
   ask_prices |-> B.ask_prices, order_map |-> B.order_map, conc |-> c]

\* the book side an order of side side is matched against, and rests on
opp_book(S, side) == IF side = "buy" THEN S.asks ELSE S.bids
opp_prices(S, side) == IF side = "buy" THEN S.ask_prices ELSE S.bid_prices
own_book(S, side) == IF side = "buy" THEN S.bids ELSE S.asks
own_prices(S, side) == IF side = "buy" THEN S.bid_prices ELSE S.ask_prices
set_opp_book(S, side, bk) == IF side = "buy" THEN [S EXCEPT !.asks = bk] ELSE [S EXCEPT !.bids = bk]
set_opp_prices(S, side, ps) ==
  IF side = "buy" THEN [S EXCEPT !.ask_prices = ps] ELSE [S EXCEPT !.bid_prices = ps]
set_own_book(S, side, bk) == IF side = "buy" THEN [S EXCEPT !.bids = bk] ELSE [S EXCEPT !.asks = bk]
set_own_prices(S, side, ps) ==
  IF side = "buy" THEN [S EXCEPT !.bid_prices = ps] ELSE [S EXCEPT !.ask_prices = ps]

\* the Order objects of the queues of bk with the quantity of order_id set to q
with_quantity(bk, order_id, q) ==
  [p \in DOMAIN bk |->
     [i \in 1..Len(bk[p]) |->
        IF bk[p][i].order_id = order_id THEN [bk[p][i] EXCEPT !.quantity = q]
        ELSE bk[p][i]]]

queued(S, order_id) ==
  {o \in UNION {Range(S.bids[p]) : p \in DOMAIN S.bids}
         \cup UNION {Range(S.asks[p]) : p \in DOMAIN S.asks} : o.order_id = order_id}

\* resting.quantity, of the Order object order_id, in a queue or popped
quantity_of(S, order_id) ==
  IF queued(S, order_id) # {} THEN (CHOOSE o \in queued(S, order_id) : TRUE).quantity
  ELSE S.conc.gone[order_id]

\* resting.quantity = q
set_quantity(S, order_id, q) ==
  IF queued(S, order_id) # {}
  THEN [S EXCEPT !.bids = with_quantity(@, order_id, q),
                 !.asks = with_quantity(@, order_id, q)]
  ELSE [S EXCEPT !.conc.gone = DictSet(@, order_id, q)]

\* the content of the deque the call t holds in queue
queue_of(S, t) ==
  LET L == S.conc.th[t] IN
  IF L.queue = "live" THEN opp_book(S, L.order.side)[L.best] ELSE <<>>

\* the other calls that hold the deque of level price of the side matched
\* by orders of side side lose it from the dict
detach(S, t, side, price) ==
  [S EXCEPT !.conc.th =
     [u \in Threads |->
        IF u # t /\ @[u].queue = "live" /\ @[u].order.side = side /\ @[u].best = price
        THEN [@[u] EXCEPT !.queue = "detached"] ELSE @[u]]]

goto(S, t, pc) == [S EXCEPT !.conc.th[t].pc = pc]
raise(S, t, e) == [S EXCEPT !.conc.th[t].pc = "raised", !.conc.th[t].err = e]

\* One statement of the add_order call t: add_order (lines 35-43),
\* _match_buy / _match_sell (lines 86-105, 108-127), _add_to_book (139-148).
step(S, t) ==
  LET L == S.conc.th[t]
      side == L.order.side
      buy == side = "buy"
      ob == opp_book(S, side)
      ops == opp_prices(S, side)
      wb == own_book(S, side)
      price == L.order.price
  IN CASE L.pc = "start" ->
            IF side \in Sides THEN goto(S, t, "while") ELSE raise(S, t, "ValueError")
       [] L.pc = "while" ->
            IF ops # <<>> /\ L.order.quantity > 0
            THEN goto(S, t, "best")
            ELSE goto(S, t, "rest")
       [] L.pc = "best" ->
            IF ops = <<>> THEN raise(S, t, "IndexError")
            ELSE [S EXCEPT !.conc.th[t].pc = "break", !.conc.th[t].best = ops[1]]
       [] L.pc = "break" ->
            IF (IF buy THEN buy_break(L.order, L.best) ELSE sell_break(L.order, L.best))
            THEN goto(S, t, "rest") ELSE goto(S, t, "queue")
       [] L.pc = "queue" ->
            IF L.best \notin DOMAIN ob THEN raise(S, t, "KeyError")
            ELSE [S EXCEPT !.conc.th[t].pc = "resting", !.conc.th[t].queue = "live"]
       [] L.pc = "resting" ->
            IF queue_of(S, t) = <<>> THEN raise(S, t, "IndexError")
            ELSE [S EXCEPT !.conc.th[t].pc = "trade_qty",
                           !.conc.th[t].resting = queue_of(S, t)[1].order_id]
       [] L.pc = "trade_qty" ->
            [S EXCEPT !.conc.th[t].pc = "take",
                      !.conc.th[t].trade_qty =
                         trade_qty(L.order, [quantity |-> quantity_of(S, L.resting)])]
       [] L.pc = "take" ->
            [S EXCEPT !.conc.th[t].pc = "give",
                      !.conc.th[t].order.quantity = @ - L.trade_qty]
       [] L.pc = "give" ->
            goto(set_quantity(S, L.resting, quantity_of(S, L.resting) - L.trade_qty),
                 t, "filled")
       [] L.pc = "filled" ->
            IF resting_filled(quantity_of(S, L.resting))
            THEN goto(S, t, "popleft") ELSE goto(S, t, "while")
       [] L.pc = "popleft" ->
            IF queue_of(S, t) = <<>> THEN raise(S, t, "IndexError")
            ELSE LET head == queue_of(S, t)[1]
                     S1 == set_opp_book(S, side, DictSet(ob, L.best, Tail(queue_of(S, t))))
                 IN goto([S1 EXCEPT !.conc.gone = DictSet(@, head.order_id, head.quantity)],
                         t, "forget")
       [] L.pc = "forget" ->
            goto([S EXCEPT !.order_map = forget_order(@, L.resting)], t, "empty")
       [] L.pc = "empty" ->
            IF queue_of(S, t) = <<>> THEN goto(S, t, "del") ELSE goto(S, t, "while")
       [] L.pc = "del" ->
            IF L.best \notin DOMAIN ob THEN raise(S, t, "KeyError")
            ELSE goto(detach(set_opp_book(S, side, DictDel(ob, L.best)), t, side, L.best),
                      t, "pop")
       [] L.pc = "pop" ->
            IF ops = <<>> THEN raise(S, t, "IndexError")
            ELSE goto(set_opp_prices(S, side, Tail(ops)), t, "while")
       [] L.pc = "rest" ->
            IF L.order.quantity > 0 THEN goto(S, t, "isnew") ELSE goto(S, t, "done")
       [] L.pc = "isnew" ->
            IF price \notin DOMAIN wb THEN goto(S, t, "deque") ELSE goto(S, t, "append")
       [] L.pc = "deque" ->
            goto(detach(set_own_book(S, side, DictSet(wb, price, <<>>)),
                        t, IF buy THEN "sell" ELSE "buy", price),
                 t, "insort")
       [] L.pc = "insort" ->
            goto(set_own_prices(S, side, insort(own_prices(S, side), price)),
                 t, IF buy THEN "sort" ELSE "append")
       [] L.pc = "sort" ->
            goto(set_own_prices(S, side, sort_reverse(own_prices(S, side))), t, "append")
       [] L.pc = "append" ->
            IF price \notin DOMAIN wb THEN raise(S, t, "KeyError")
            ELSE goto(set_own_book(S, side, DictSet(wb, price, append_order(wb[price], L.order))),
                      t, "index")
       [] L.pc = "index" ->
            goto([S EXCEPT !.order_map = DictSet(@, L.order.order_id, <<side, price>>)],
                 t, "done")

\* ------------------------------------------------------------------ actions
\* the record kept of the last call: its argument as passed, the quantity
\* left in the Order object afterwards, and what the call did
Call(op, order, remaining, rested, found, ret) ==
  [op |-> op, order_id |-> order.order_id, side |-> order.side,
   price |-> order.price, quantity |-> order.quantity,
   remaining |-> remaining, rested |-> rested, found |-> found, ret |-> ret]

Init ==
  /\ bids = EmptyDict
  /\ asks = EmptyDict
  /\ bid_prices = <<>>
  /\ ask_prices = <<>>
  /\ order_map = EmptyDict
  /\ nextId = 1
  /\ call = Call("init", Order(0, "none", 0, 0), 0, FALSE, FALSE, None)
  /\ fills = <<>>
  /\ err = "none"
  /\ out = NoOutput
  /\ conc = NoCalls

\* ob.add_order(order), as the caller sees it
Submit(order) ==
  LET M == add_order(book, order) IN
  /\ bids' = M.bids
  /\ asks' = M.asks
  /\ bid_prices' = M.bid_prices
  /\ ask_prices' = M.ask_prices
  /\ order_map' = M.order_map
  /\ nextId' = nextId + 1
  /\ call' = Call("add", order, M.order.quantity, M.rested, FALSE, M.ret)
  /\ fills' = M.fills
  /\ err' = M.err
  /\ out' = NoOutput
  /\ UNCHANGED conc

\* add_order of an order with a positive price and a positive quantity
AddOrder ==
  /\ nextId <= MaxOrders
  /\ \E side \in Sides \cup BadSides, price \in Prices, quantity \in Qtys :
       Submit(Order(nextId, side, price, quantity))

\* add_order of an order whose price or quantity is not positive
AddInvalidOrder ==
  /\ nextId <= MaxOrders
  /\ \E side \in Sides, price \in Prices \cup BadNumbers, quantity \in Qtys \cup BadNumbers :
       /\ price <= 0 \/ quantity <= 0
       /\ Submit(Order(nextId, side, price, quantity))

\* ob.cancel_order(order_id)
CancelOrder ==
  \E order_id \in 1..(MaxOrders + 1) :
    LET R == cancel_order(book, order_id) IN
    /\ bids' = R.book.bids
    /\ asks' = R.book.asks
    /\ bid_prices' = R.book.bid_prices
    /\ ask_prices' = R.book.ask_prices
    /\ order_map' = R.book.order_map
    /\ call' = Call("cancel", Order(order_id, "none", 0, 0), 0, FALSE, R.found, None)
    /\ fills' = <<>>
    /\ err' = R.err
    /\ out' = NoOutput
    /\ UNCHANGED <<nextId, conc>>

\* ob.print_book()
PrintBook ==
  LET P == print_book(book) IN
  /\ out' = P
  /\ err' = P.err
  /\ call' = Call("print", Order(0, "none", 0, 0), 0, FALSE, FALSE, None)
  /\ fills' = <<>>
  /\ UNCHANGED <<bids, asks, bid_prices, ask_prices, order_map, nextId, conc>>

Next == AddOrder \/ CancelOrder

Spec == Init /\ [][Next]_vars

\* the same book with a caller that also passes non-positive prices and quantities
NextUnchecked == AddOrder \/ AddInvalidOrder \/ CancelOrder

SpecUnchecked == Init /\ [][NextUnchecked]_vars

\* a caller calls ob.add_order(order) before any statement-level call
Populate ==
  /\ nextId <= MaxOrders
  /\ \A t \in Threads : conc.th[t].pc = "idle"
  /\ \E side \in Sides, price \in Prices, quantity \in Qtys :
       LET M == add_order(book, Order(nextId, side, price, quantity)) IN
       /\ bids' = M.bids
       /\ asks' = M.asks
       /\ bid_prices' = M.bid_prices
       /\ ask_prices' = M.ask_prices
       /\ order_map' = M.order_map
  /\ nextId' = nextId + 1
  /\ UNCHANGED <<call, fills, err, out, conc>>

\* the other callers have no call in progress
Alone(t) == \A u \in Threads \ {t} : ~Active(conc.th[u].pc)

\* caller t, who made no call yet, calls ob.add_order(order); caller 1 is the
\* first to call
Begin(t, serialized) ==
  /\ nextId <= MaxOrders
  /\ conc.th[t].pc = "idle"
  /\ \A u \in Threads : u < t => conc.th[u].pc # "idle"
  /\ serialized => Alone(t)
  /\ \E side \in Sides, price \in Prices, quantity \in Qtys :
       conc' = [conc EXCEPT !.th[t] = Locals("start", Order(nextId, side, price, quantity)),
                            !.overlapped = @ \/ ~Alone(t)]
  /\ nextId' = nextId + 1
  /\ UNCHANGED <<bids, asks, bid_prices, ask_prices, order_map, call, fills, err, out>>

\* a call begins at any moment
StartCall == \E t \in Threads : Begin(t, FALSE)

\* a call begins when no call is in progress
StartSerial == \E t \in Threads : Begin(t, TRUE)

\* a call in progress executes its next statement
Step ==
  /\ \E t \in Threads :
       /\ Active(conc.th[t].pc)
       /\ LET S == step(Machine(book, conc), t) IN
          /\ bids' = S.bids
          /\ asks' = S.asks
          /\ bid_prices' = S.bid_prices
          /\ ask_prices' = S.ask_prices
          /\ order_map' = S.order_map
          /\ conc' = S.conc
  /\ UNCHANGED <<nextId, call, fills, err, out>>

\* two add_order calls statement by statement on a populated book
NextConc == Populate \/ StartCall \/ Step

SpecConc == Init /\ [][NextConc]_vars

\* two serialized add_order calls statement by statement on a populated
\* book; a call in progress goes on executing
NextSerial == Populate \/ StartSerial \/ Step

SpecSerial == Init /\ [][NextSerial]_vars /\ WF_vars(Step)

\* the same book with a caller that also prints it
NextPrint == AddOrder \/ CancelOrder \/ PrintBook

SpecPrint == Init /\ [][NextPrint]_vars

\* ------------------------------------------------------- what the claims use
\* the orders held in the queues of one side
Resting(bk) == UNION {Range(bk[p]) : p \in DOMAIN bk}

\* the orders held in the queues of both sides of a book
RestingOrders(B) == Resting(B.bids) \cup Resting(B.asks)

\* the remaining quantity with which the order order_id rests in B, 0 if it does not
RemainingOf(B, order_id) ==
  LET S == {o \in RestingOrders(B) : o.order_id = order_id}
  IN IF S = {} THEN 0 ELSE (CHOOSE o \in S : TRUE).quantity

\* the quantity traded by the first n fills of f
RECURSIVE SumQty(_, _)
SumQty(f, n) == IF n = 0 THEN 0 ELSE SumQty(f, n - 1) + f[n].quantity

\* the quantity traded with maker by the fills of f before the i-th
RECURSIVE FilledBefore(_, _, _)
FilledBefore(f, i, maker) ==
  IF i <= 1 THEN 0
  ELSE FilledBefore(f, i - 1, maker)
       + (IF f[i - 1].maker = maker THEN f[i - 1].quantity ELSE 0)

\* the step is an add_order call of an order with a valid side, a positive
\* price and a positive quantity
ValidAdd(c) ==
  c.op = "add" /\ c.side \in Sides /\ c.price > 0 /\ c.quantity > 0

\* in every queue the orders stand in the order of their admission
QueuesInAdmissionOrder(B) ==
  \A bk \in {B.bids, B.asks} : \A p \in DOMAIN bk :
    \A i, j \in 1..Len(bk[p]) : i < j => bk[p][i].order_id < bk[p][j].order_id

\* ------------------------------------------------------------------- claims
\* C1: no self-crossing. In every state reached by add_order and cancel_order
\* calls, when both sides hold orders best_bid() < best_ask(), and no resting
\* bid is priced at or above a resting ask.
C1_NoSelfCrossing ==
  /\ (Resting(bids) # {} /\ Resting(asks) # {}) =>
       /\ best_bid(book) # None
       /\ best_ask(book) # None
       /\ best_bid(book)[1] < best_ask(book)[1]
  /\ \A b \in Resting(bids), a \in Resting(asks) : b.price < a.price

\* an incoming order traded, rested its residual, and both sides hold orders
C1_Witness ==
  /\ call.op = "add" /\ fills # <<>> /\ call.rested
  /\ Resting(bids) # {} /\ Resting(asks) # {}

\* C2: time priority within a price level. No fill is made against an order B
\* while an order A admitted before it at the same price on the same side
\* still has remaining quantity; a partially filled resting order stays at
\* the head of its level; queues stay in admission order.
C2_TimePriority ==
  [][call'.op = "add" =>
       LET opp == IF call'.side = "buy" THEN asks ELSE bids
           oppAfter == IF call'.side = "buy" THEN asks' ELSE bids'
       IN /\ \A i \in 1..Len(fills') :
               LET B == fills'[i].maker
                   p == fills'[i].level
               IN /\ p \in DOMAIN opp
                  /\ \E k \in 1..Len(opp[p]) : opp[p][k].order_id = B
                  /\ \A k \in 1..Len(opp[p]) :
                       LET A == opp[p][k]
                       IN A.order_id < B =>
                            FilledBefore(fills', i, A.order_id) = A.quantity
                  /\ RemainingOf(book', B) > 0 =>
                       /\ p \in DOMAIN oppAfter
                       /\ oppAfter[p][1].order_id = B
          /\ QueuesInAdmissionOrder(book')
  ]_vars

\* two sells at one price, a buy that fills the first and part of the second
C2_Witness ==
  /\ call.op = "add" /\ Len(fills) = 2
  /\ fills[1].level = fills[2].level
  /\ fills[1].maker < fills[2].maker
  /\ RemainingOf(book, fills[2].maker) > 0

\* C3: quantity conservation. For an add_order call of a valid order of
\* quantity q, the fills' quantities plus the quantity rested equal q; each
\* fill is min(incoming remaining, resting remaining) and reduces both the
\* incoming and the resting order by that amount.
C3_QuantityConservation ==
  [][ValidAdd(call') =>
       LET f == fills'
           n == Len(fills')
           q == call'.quantity
       IN /\ SumQty(f, n) + RemainingOf(book', call'.order_id) = q
          /\ call'.remaining = q - SumQty(f, n)
          /\ call'.rested <=> call'.remaining > 0
          /\ \A i \in 1..n :
               f[i].quantity =
                 Min(q - SumQty(f, i - 1),
                     RemainingOf(book, f[i].maker) - FilledBefore(f, i, f[i].maker))
          /\ \A o \in RestingOrders(book) :
               RemainingOf(book', o.order_id) =
                 o.quantity - FilledBefore(f, n + 1, o.order_id)
  ]_vars

\* an incoming order that traded part of its quantity and rested the rest
C3_Witness ==
  /\ ValidAdd(call) /\ fills # <<>>
  /\ call.rested /\ 0 < call.remaining /\ call.remaining < call.quantity
  /\ RemainingOf(book, call.order_id) = call.remaining

\* C5: add_order returns the sequence of the fills it made, in the order they
\* occurred, with an indication of whether residual quantity was rested.
C5_ReturnsFills ==
  (call.op = "add" /\ err = "none") => call.ret = <<fills, call.rested>>

\* C6: idempotent cancel. cancel_order of an id that is not in the book
\* raises nothing and changes nothing, and a cancel_order repeated at once
\* leaves the state the first one left.
C6_IdempotentCancel ==
  [][call'.op = "cancel" =>
       /\ err' = "none"
       /\ call'.order_id \notin DOMAIN order_map => book' = book
       /\ cancel_order(book', call'.order_id).book = book'
       /\ cancel_order(book', call'.order_id).err = "none"
  ]_vars

\* cancel_order of an id that was admitted earlier and is no longer in the
\* book, while the book holds orders
C6_Witness ==
  /\ call.op = "cancel" /\ ~call.found /\ call.order_id < nextId
  /\ RestingOrders(book) # {}

\* C7: add_order of an order with a non-positive price or a non-positive
\* quantity fails with an error and leaves the book unchanged.
C7_InvalidOrderRejected ==
  [][(call'.op = "add" /\ (call'.price <= 0 \/ call'.quantity <= 0)) =>
       /\ err' # "none"
       /\ book' = book
  ]_vars

\* C8: add_order of an order whose side is neither buy nor sell fails with an
\* error; nothing is matched or rested, the book and the order's quantity
\* are as before the call.
C8_BadSideRejected ==
  [][(call'.op = "add" /\ call'.side \notin Sides) =>
       /\ err' = "ValueError"
       /\ book' = book
       /\ fills' = <<>>
       /\ ~call'.rested
       /\ call'.remaining = call'.quantity
  ]_vars

\* an order with a bad side was refused while a bid it would cross as a sell
\* was resting
C8_Witness ==
  /\ call.op = "add" /\ call.side \notin Sides /\ err = "ValueError"
  /\ \E b \in Resting(bids) : b.price >= call.price

\* the sum of the remaining quantities of the orders of bk priced at p
RECURSIVE QueueQty(_)
QueueQty(queue) ==
  IF queue = <<>> THEN 0 ELSE Head(queue).quantity + QueueQty(Tail(queue))

\* at least one order rests at price p in bk, with aggregate quantity > 0
RestsAt(bk, p) ==
  \E k \in DOMAIN bk :
    /\ \E o \in Range(bk[k]) : o.price = p
    /\ QueueQty(bk[k]) > 0

LevelCleanup(bk, prices) ==
  /\ \A p \in DOMAIN bk : bk[p] # <<>>
  /\ \A p \in (DOMAIN bk) \cup Range(prices) \cup {o.price : o \in Resting(bk)} :
       /\ p \in DOMAIN bk <=> RestsAt(bk, p)
       /\ p \in Range(prices) <=> RestsAt(bk, p)

\* C9: level cleanup. A price is a key of bids (asks), and is listed in
\* bid_prices (ask_prices), if and only if an order rests at that price on
\* that side with aggregate remaining quantity > 0; no level is an empty queue.
C9_LevelCleanup ==
  /\ LevelCleanup(bids, bid_prices)
  /\ LevelCleanup(asks, ask_prices)

\* a cancel_order that removed the last order of the last level
C9_Witness ==
  /\ call.op = "cancel" /\ call.found
  /\ DOMAIN bids = {} /\ DOMAIN asks = {}
  /\ bid_prices = <<>> /\ ask_prices = <<>>

SetMax(S) == CHOOSE x \in S : \A y \in S : y <= x
SetMin(S) == CHOOSE x \in S : \A y \in S : x <= y

\* C10: best_bid() is the maximum price among the resting bids, best_ask()
\* the minimum price among the resting asks, and each is None exactly when
\* its side holds no order.
C10_BestPrices ==
  LET bp == {o.price : o \in Resting(bids)}
      ap == {o.price : o \in Resting(asks)}
  IN /\ best_bid(book) = None <=> bp = {}
     /\ best_ask(book) = None <=> ap = {}
     /\ bp # {} => best_bid(book) = Some(SetMax(bp))
     /\ ap # {} => best_ask(book) = Some(SetMin(ap))

\* a bid admitted after a lower-priced bid that still rests is the best bid,
\* and the ask side is empty after a cancel_order
C10_Witness ==
  /\ \E a, b \in Resting(bids) :
       a.order_id < b.order_id /\ a.price < b.price /\ best_bid(book) = Some(b.price)
  /\ Resting(asks) = {} /\ best_ask(book) = None
  /\ call.op = "cancel" /\ call.found

\* the sum of the remaining quantities of a set of orders
RECURSIVE SetQty(_)
SetQty(S) ==
  IF S = {} THEN 0
  ELSE LET o == CHOOSE x \in S : TRUE IN o.quantity + SetQty(S \ {o})

\* the lines of one section list exactly the prices at which orders rest in
\* bk, each with the sum of the remaining quantities resting there
ListsLevels(lines, bk) ==
  /\ {lines[i].price : i \in 1..Len(lines)} = {o.price : o \in Resting(bk)}
  /\ \A i \in 1..Len(lines) :
       lines[i].total = SetQty({o \in Resting(bk) : o.price = lines[i].price})

\* C11: print_book lists the asks in strictly ascending price order and the
\* bids in strictly descending price order, gives for each active level the
\* sum of the remaining quantities resting there, and changes nothing in the
\* book.
C11_DepthListing ==
  [][call'.op = "print" =>
       /\ book' = book
       /\ err' = "none"
       /\ \A i, j \in 1..Len(out'.asks) : i < j => out'.asks[i].price < out'.asks[j].price
       /\ \A i, j \in 1..Len(out'.bids) : i < j => out'.bids[i].price > out'.bids[j].price
       /\ ListsLevels(out'.asks, asks)
       /\ ListsLevels(out'.bids, bids)
  ]_vars

\* a printed book with two bid levels, one of them holding two orders
C11_Witness ==
  /\ call.op = "print" /\ Len(out.bids) = 2
  /\ \E p \in DOMAIN bids : Len(bids[p]) = 2
  /\ \E i \in 1..2 : out.bids[i].total > MaxQty

\* the orders with id order_id held in the queue of level p of bk
HeldAt(bk, p, order_id) ==
  IF p \in DOMAIN bk THEN {i \in 1..Len(bk[p]) : bk[p][i].order_id = order_id} ELSE {}

\* every order in a queue of bk is indexed by order_map under (side, level)
Indexed(bk, side) ==
  \A p \in DOMAIN bk : \A i \in 1..Len(bk[p]) :
    /\ bk[p][i].order_id \in DOMAIN order_map
    /\ order_map[bk[p][i].order_id] = <<side, p>>

\* C12: order index invariant. An id is a key of order_map if and only if an
\* order with that id sits in a queue, and order_map[id] is the (side, price)
\* of the level holding it; filled and cancelled ids are absent.
C12_OrderIndex ==
  /\ Indexed(bids, "buy")
  /\ Indexed(asks, "sell")
  /\ \A id \in DOMAIN order_map :
       LET side == order_map[id][1]
           p == order_map[id][2]
       IN /\ side \in Sides
          /\ Cardinality(HeldAt(IF side = "buy" THEN bids ELSE asks, p, id)) = 1
  /\ call.op = "cancel" => call.order_id \notin DOMAIN order_map
  /\ \A i \in 1..Len(fills) :
       RemainingOf(book, fills[i].maker) = 0 => fills[i].maker \notin DOMAIN order_map

\* an add_order that filled one resting order completely and left others indexed
C12_Witness ==
  /\ call.op = "add" /\ fills # <<>>
  /\ fills[1].maker \notin DOMAIN order_map
  /\ Cardinality(DOMAIN order_map) = 2

NoDuplicates(s) == \A i, j \in 1..Len(s) : i # j => s[i] # s[j]

\* C13: price index consistency. The prices of bid_prices are the keys of
\* bids and the prices of ask_prices the keys of asks, without duplicates;
\* bid_prices is strictly descending and ask_prices strictly ascending.
C13_PriceIndex ==
  /\ Range(bid_prices) = DOMAIN bids
  /\ Range(ask_prices) = DOMAIN asks
  /\ NoDuplicates(bid_prices)
  /\ NoDuplicates(ask_prices)
  /\ \A i, j \in 1..Len(bid_prices) : i < j => bid_prices[i] > bid_prices[j]
  /\ \A i, j \in 1..Len(ask_prices) : i < j => ask_prices[i] < ask_prices[j]

\* two ask levels, the lower one admitted later, after a cancel_order that
\* removed an order
C13_Witness ==
  /\ Len(ask_prices) = 2
  /\ \E a, b \in Resting(asks) : a.order_id < b.order_id /\ a.price > b.price
  /\ call.op = "cancel" /\ call.found

\* C14: every order resting in a queue has remaining quantity > 0 between
\* operations, no remaining quantity goes negative, and an order filled down
\* to 0 leaves its queue and order_map within the same add_order call.
C14_PositiveQuantities ==
  [][/\ \A o \in RestingOrders(book') : o.quantity > 0
     /\ ValidAdd(call') =>
          /\ call'.remaining >= 0
          /\ \A i \in 1..Len(fills') : fills'[i].quantity > 0
          /\ \A o \in RestingOrders(book) :
               LET traded == FilledBefore(fills', Len(fills') + 1, o.order_id)
               IN /\ traded <= o.quantity
                  /\ traded = o.quantity =>
                       /\ o.order_id \notin DOMAIN order_map'
                       /\ \A r \in RestingOrders(book') : r.order_id # o.order_id
  ]_vars

\* an add_order that filled one resting order to 0 and another one in part
C14_Witness ==
  /\ call.op = "add" /\ Len(fills) = 2
  /\ RemainingOf(book, fills[1].maker) = 0
  /\ fills[1].maker \notin DOMAIN order_map
  /\ RemainingOf(book, fills[2].maker) > 0

\* the dict of the side an order of side side rests on, and of the side it
\* is matched against
OwnSide(B, side) == IF side = "buy" THEN B.bids ELSE B.asks
OwnPrices(B, side) == IF side = "buy" THEN B.bid_prices ELSE B.ask_prices
OppositeSide(B, side) == IF side = "buy" THEN B.asks ELSE B.bids
OppositePrices(B, side) == IF side = "buy" THEN B.ask_prices ELSE B.bid_prices

\* the number of places at which an order with id order_id sits in the queues of B
Occurrences(B, order_id) ==
  Cardinality({<<side, p, i>> \in Sides \X (DOMAIN B.bids \cup DOMAIN B.asks) \X (1..MaxOrders) :
                 /\ p \in DOMAIN OwnSide(B, side)
                 /\ i \in HeldAt(OwnSide(B, side), p, order_id)})

\* C15: resting of the residual. After add_order of a valid order the order
\* rests if and only if its remaining quantity is > 0; it then is the last
\* element of the queue at its own price on its own side, with that
\* quantity, indexed under (side, price); fully filled, it is in no queue
\* and not in order_map.
C15_ResidualRests ==
  [][ValidAdd(call') =>
       LET id == call'.order_id
           own == OwnSide(book', call'.side)
       IN /\ err' = "none"
          /\ call'.rested <=> call'.remaining > 0
          /\ Occurrences(book', id) = (IF call'.remaining > 0 THEN 1 ELSE 0)
          /\ call'.remaining > 0 =>
               /\ call'.price \in DOMAIN own
               /\ own[call'.price][Len(own[call'.price])]
                    = Order(id, call'.side, call'.price, call'.remaining)
               /\ id \in DOMAIN order_map'
               /\ order_map'[id] = <<call'.side, call'.price>>
          /\ call'.remaining = 0 => id \notin DOMAIN order_map'
  ]_vars

\* an order rested behind an older order of its level, and another one was
\* admitted before both
C15_Witness ==
  /\ ValidAdd(call) /\ call.rested /\ call.order_id = 3
  /\ Len(OwnSide(book, call.side)[call.price]) = 2
  /\ OwnSide(book, call.side)[call.price][2].order_id = 3

\* C16: price priority across levels. A buy fills asks in ascending and a
\* sell fills bids in descending price order; no fill is made at a level
\* while a strictly better opposite level holds quantity; every fill is at a
\* level that crosses the limit; matching stops only when the incoming
\* quantity is exhausted or the best opposite price no longer crosses.
C16_PricePriority ==
  [][(ValidAdd(call') /\ err' = "none") =>
       LET buy == call'.side = "buy"
           opp == OppositeSide(book, call'.side)
           Better(p, q) == IF buy THEN p < q ELSE p > q
           Crosses(p) == IF buy THEN call'.price >= p ELSE call'.price <= p
           n == Len(fills')
       IN /\ \A i \in 1..n :
               /\ Crosses(fills'[i].level)
               /\ \A j \in 1..n : i < j => ~Better(fills'[j].level, fills'[i].level)
               /\ \A o \in Resting(opp) :
                    Better(o.price, fills'[i].level) =>
                      FilledBefore(fills', i, o.order_id) = o.quantity
          /\ \/ call'.remaining = 0
             \/ Resting(OppositeSide(book', call'.side)) = {}
             \/ \A o \in Resting(OppositeSide(book', call'.side)) : ~Crosses(o.price)
  ]_vars

\* a sell that filled a bid at the higher level, then one at the lower level
C16_Witness ==
  /\ call.op = "add" /\ call.side = "sell" /\ Len(fills) = 2
  /\ fills[1].level > fills[2].level

\* the queue without its k-th element
RemoveAt(queue, k) == SubSeq(queue, 1, k - 1) \o SubSeq(queue, k + 1, Len(queue))

\* C17: cancel_order of a resting order removes exactly that order from
\* wherever it sits in its queue; the other orders keep quantity and
\* relative position, the opposite side is untouched, the level and its
\* price entry go only if the order was the last at that price, and no fill
\* occurs.
C17_CancelFrame ==
  [][(call'.op = "cancel" /\ call'.order_id \in DOMAIN order_map) =>
       LET id == call'.order_id
           side == order_map[id][1]
           p == order_map[id][2]
           own == OwnSide(book, side)
           ownAfter == OwnSide(book', side)
       IN /\ err' = "none" /\ fills' = <<>> /\ call'.found
          /\ OppositeSide(book', side) = OppositeSide(book, side)
          /\ OppositePrices(book', side) = OppositePrices(book, side)
          /\ order_map' = [x \in (DOMAIN order_map) \ {id} |-> order_map[x]]
          /\ \A q \in (DOMAIN own) \ {p} : q \in DOMAIN ownAfter /\ ownAfter[q] = own[q]
          /\ DOMAIN ownAfter \subseteq DOMAIN own
          /\ \E k \in 1..Len(own[p]) :
               /\ own[p][k].order_id = id
               /\ IF Len(own[p]) = 1
                  THEN /\ p \notin DOMAIN ownAfter
                       /\ OwnPrices(book', side) = SelectSeq(OwnPrices(book, side), LAMBDA x : x # p)
                  ELSE /\ p \in DOMAIN ownAfter
                       /\ ownAfter[p] = RemoveAt(own[p], k)
                       /\ OwnPrices(book', side) = OwnPrices(book, side)
  ]_vars

\* the middle one of three orders of a level was cancelled
C17_Witness ==
  /\ call.op = "cancel" /\ call.found /\ call.order_id = 2
  /\ \E side \in Sides : \E p \in DOMAIN OwnSide(book, side) :
       /\ Len(OwnSide(book, side)[p]) = 2
       /\ OwnSide(book, side)[p][1].order_id = 1
       /\ OwnSide(book, side)[p][2].order_id = 3
  /\ bid_prices \o ask_prices = <<MaxPrice>>

\* C20: own-side frame of add_order. A buy changes no resting bid's quantity,
\* position or presence and removes no bid level; the bid side changes at
\* most by the appended residual and its newly inserted price. The same
\* holds for a sell and the ask side.
C20_OwnSideFrame ==
  [][(ValidAdd(call') /\ err' = "none") =>
       LET own == OwnSide(book, call'.side)
           ownAfter == OwnSide(book', call'.side)
           p == call'.price
           residual == Order(call'.order_id, call'.side, p, call'.remaining)
       IN /\ \A q \in (DOMAIN own) \ {p} : q \in DOMAIN ownAfter /\ ownAfter[q] = own[q]
          /\ IF call'.rested
             THEN /\ DOMAIN ownAfter = (DOMAIN own) \cup {p}
                  /\ ownAfter[p] = (IF p \in DOMAIN own THEN own[p] ELSE <<>>) \o <<residual>>
                  /\ Range(OwnPrices(book', call'.side)) = Range(OwnPrices(book, call'.side)) \cup {p}
             ELSE /\ ownAfter = own
                  /\ OwnPrices(book', call'.side) = OwnPrices(book, call'.side)
          /\ \A i, j \in 1..Len(OwnPrices(book, call'.side)) :
               i < j => \E k, l \in 1..Len(OwnPrices(book', call'.side)) :
                          /\ k < l
                          /\ OwnPrices(book', call'.side)[k] = OwnPrices(book, call'.side)[i]
                          /\ OwnPrices(book', call'.side)[l] = OwnPrices(book, call'.side)[j]
  ]_vars

\* a buy that traded with an ask and rested its residual beside an older bid
C20_Witness ==
  /\ ValidAdd(call) /\ call.side = "buy" /\ fills # <<>> /\ call.rested
  /\ Cardinality(Resting(bids)) = 2
  /\ Len(bid_prices) = 2

\* the shared book and the calls in progress, after the step
MachineAfter == Machine(book', conc')

\* C18: every add_order call terminates. Under serialized callers a call
\* that has started reaches its end, and each pass of the matching loop that
\* returns to the loop test has exhausted the incoming quantity or has
\* removed the resting order it traded with from the opposite side.
C18_Termination ==
  /\ \A t \in Threads : (conc.th[t].pc = "start") ~> (conc.th[t].pc = "done")
  /\ [][\A t \in Threads :
          (conc.th[t].pc \in {"filled", "empty", "pop"} /\ conc'.th[t].pc = "while") =>
            \/ conc'.th[t].order.quantity = 0
            \/ /\ queued(MachineAfter, conc.th[t].resting) = {}
               /\ conc.th[t].resting \in DOMAIN conc'.gone
               /\ conc.th[t].resting \notin DOMAIN order_map'
     ]_vars

\* a call that ended after its matching loop removed two resting orders
C18_Witness ==
  \E t \in Threads :
    /\ conc.th[t].pc = "done"
    /\ conc.th[t].order.quantity = 0
    /\ Cardinality(DOMAIN conc.gone) = 2
    /\ \A u \in Threads \ {t} : conc.th[u].pc = "idle"

\* a resting order, in a queue or popped from it, with a quantity below 0
DoubleFill ==
  \/ \E o \in RestingOrders(book) : o.quantity < 0
  \/ \E id \in DOMAIN conc.gone : conc.gone[id] < 0

\* the queues, the price lists and order_map disagree, or a queue is out of
\* admission order
Corrupted ==
  \/ ~Indexed(bids, "buy")
  \/ ~Indexed(asks, "sell")
  \/ \E id \in DOMAIN order_map :
       Cardinality(HeldAt(IF order_map[id][1] = "buy" THEN bids ELSE asks,
                          order_map[id][2], id)) # 1
  \/ Range(bid_prices) # DOMAIN bids
  \/ Range(ask_prices) # DOMAIN asks
  \/ ~NoDuplicates(bid_prices)
  \/ ~NoDuplicates(ask_prices)
  \/ \E i, j \in 1..Len(bid_prices) : i < j /\ bid_prices[i] <= bid_prices[j]
  \/ \E i, j \in 1..Len(ask_prices) : i < j /\ ask_prices[i] >= ask_prices[j]
  \/ \E bk \in {bids, asks} : \E p \in DOMAIN bk : bk[p] = <<>>
  \/ \E o \in RestingOrders(book) : o.quantity <= 0
  \/ ~QueuesInAdmissionOrder(book)

\* an order was filled twice, a call raised, or the calls have ended and
\* left the book corrupted
BadState ==
  \/ DoubleFill
  \/ \E t \in Threads : conc.th[t].pc = "raised"
  \/ (\A t \in Threads : ~Active(conc.th[t].pc)) /\ Corrupted

\* C19: add_order calls interleaved statement by statement. As long as no
\* call began while another was in progress no order is filled below 0, no
\* call raises and the book the calls leave is consistent; two calls that
\* overlap fill the same resting quantity.
C19_Interleaving == ~conc.overlapped => ~BadState

\* two unserialized calls traded with the same resting order and drove its
\* quantity below 0
C19_Witness ==
  /\ conc.overlapped
  /\ conc.th[1].resting # 0
  /\ conc.th[1].resting = conc.th[2].resting
  /\ quantity_of(Machine(book, conc), conc.th[1].resting) < 0
  /\ DoubleFill

====
